---- MODULE Spec2Model ----
(***************************************************************************)
(* Model of src/qa/process.py: the restart stitcher (combine_restarts),    *)
(* the replicate concatenators (combine_replicates, combine_qm_replicates),*)
(* the structure projector (xyz2pdb, xyz2pdb_traj, xyz2pdb_ensemble), the  *)
(* section filter (clean_incomplete_xyz) and string_to_list.               *)
(*                                                                         *)
(* Text files are sequences of lines.  A coordinate line is the sequence   *)
(* of its whitespace-separated tokens (what str.split() returns); a charge *)
(* line is the sequence of its characters without the final newline.       *)
(* Python's 0-based indices are kept in the variables; At0 and Slice read  *)
(* sequences the way Python's s[i] and s[a:b] do.                          *)
(***************************************************************************)
EXTENDS Integers, Sequences, FiniteSets, TLC

VARIABLES
    op,              \* which function of process.py is running
    pc,              \* position in it: "start", "loop", ..., "done" or the exception raised
    directories,     \* combine_restarts: sorted scr* directories with their files
    dir_idx,         \* combine_restarts: enumerate() index of the next directory
    last_frame,      \* combine_restarts: frame-number watermark
    total_frames,    \* combine_restarts: running count of charge rows kept
    combined_frame_count, \* combine_restarts: frames counted in the combined file
    all_coors,       \* the combined coordinate file in the working directory
    all_charges,     \* the combined charge file in the working directory
    tree,            \* concatenators: the replicate directories of the working directory
    dirs,            \* combine_replicates: the sorted glob of the directories
    charge_files,    \* combine_replicates: directories whose charge file is merged
    coors_files,     \* combine_replicates: directories whose coordinate file is merged
    raw_charges,     \* combine_replicates: the intermediate raw_all_charges.xls
    replicates,      \* combine_qm_replicates: the sorted glob without the ignored names
    rep_pos,         \* combine_qm_replicates: how many replicates the loop has visited
    header_written,  \* combine_qm_replicates: the header flag
    xyz_list,        \* projector: the coordinate files to convert, in call order
    xyz_index,       \* xyz2pdb: enumerate() index of the current coordinate file
    xyz_file,        \* projector: readlines() of the current coordinate file
    max_atom,        \* projector: serial number of the template's last atom record
    atom,            \* projector: the atom counter
    line_count,      \* projector: lines of xyz_file the loop has consumed
    model_number,    \* xyz2pdb_ensemble: number of the next MODEL line
    new_files,       \* projector: the output files, one per open(..., "w")
    stdout,          \* projector: the "Script died" reports printed
    orig_file,       \* clean_incomplete_xyz: all_coors.xyz as raw lines
    read_pos,        \* clean_incomplete_xyz: lines of orig_file read so far
    section_delim,   \* clean_incomplete_xyz: the stripped first line
    section,         \* clean_incomplete_xyz: lines of the current section
    first_line,      \* clean_incomplete_xyz: the first-line flag
    incomplete,      \* clean_incomplete_xyz: sections counted incomplete
    coors_file_new,  \* clean_incomplete_xyz: all_coors_clean.xyz
    str_list,        \* string_to_list: the argument
    number_list      \* string_to_list: the result, one list per string visited

restartVars == <<directories, dir_idx, last_frame, total_frames, combined_frame_count>>
concatVars == <<tree, dirs, charge_files, coors_files, raw_charges>>
qmVars == <<replicates, rep_pos, header_written>>
projVars == <<xyz_list, xyz_index, xyz_file, max_atom, atom, line_count, model_number,
              new_files, stdout>>
filterVars == <<orig_file, read_pos, section_delim, section, first_line, incomplete,
                coors_file_new>>
listVars == <<str_list, number_list>>
toolVars == <<projVars, filterVars, listVars>>
mergeVars == <<all_coors, all_charges, restartVars, concatVars, qmVars>>
vars == <<op, pc, all_coors, all_charges, restartVars, concatVars, qmVars, toolVars>>

----------------------------------------------------------------------------
(* Bounds of the model *)

MaxDirs == 2         \* at most this many scr* run directories
MaxBlocks == 2       \* at most this many frame blocks in one coors.xyz
atom_count == 1      \* the atom_count argument of combine_restarts
TemplateAtoms == 2   \* atom records of the template, and atoms the coordinate files declare
MaxItems == 2        \* at most this many comma-separated items in the first string
MaxStrings == 2      \* at most this many strings in the argument of string_to_list

----------------------------------------------------------------------------
(* Python helpers *)

Min(a, b) == IF a < b THEN a ELSE b

\* s[i] with a 0-based index i
At0(s, i) == s[i + 1]

\* s[a:b] for 0 <= a, 0 <= b: the items at 0-based positions a .. b-1 that exist
Slice(s, a, b) == SubSeq(s, a + 1, Min(b, Len(s)))

\* the decimal tokens int() accepts in this model, "0" .. "9"
IntTokens == <<"0", "1", "2", "3", "4", "5", "6", "7", "8", "9">>

IsIntToken(tok) == \E n \in 1..Len(IntTokens) : IntTokens[n] = tok

\* int(tok) for a token int() accepts
ParseInt(tok) == (CHOOSE n \in 1..Len(IntTokens) : IntTokens[n] = tok) - 1

\* str(n) for 0 <= n <= 9
Str(n) == IntTokens[n + 1]

\* a file on disk: it exists or not, and holds lines
File(ls) == [exists |-> TRUE, lines |-> ls]
NoFile == [exists |-> FALSE, lines |-> <<>>]

\* open(path, "a") followed by writes of the lines ls: the file is created when absent
AppendLines(f, ls) == File(f.lines \o ls)

Range(s) == {s[i] : i \in DOMAIN s}

\* all sequences over S of length 0..n
SeqsUpTo(S, n) == UNION {[1..k -> S] : k \in 0..n}

----------------------------------------------------------------------------
(* Input files of combine_restarts *)

\* what a title line carries as its third token: a frame number, a token int()
\* rejects (ValueError), or nothing at all (IndexError)
FrameTokens == {"0", "1", "2"}
BadTokens == {"x", "-"}
TitleChoices == FrameTokens \cup BadTokens

CountLine == <<Str(atom_count)>>
TitleLine(t) == IF t = "-" THEN <<"MD:", "frame">> ELSE <<"MD:", "frame", t>>
\* the coordinate lines of block k of run d; the tokens after the element name
\* identify the block
AtomLine(d, k) == <<"C", Str(d), Str(k), "0">>
Block(t, d, k) == <<CountLine, TitleLine(t)>> \o [a \in 1..atom_count |-> AtomLine(d, k)]

RECURSIVE CoorsLines(_, _, _)
CoorsLines(ts, d, k) ==
    IF k > Len(ts) THEN <<>> ELSE Block(ts[k], d, k) \o CoorsLines(ts, d, k + 1)

\* a run's title tokens: the frame numbers strictly increase, and at most one
\* title line is damaged
IsRun(ts) ==
    /\ \A i, j \in DOMAIN ts :
          (i < j /\ ts[i] \in FrameTokens /\ ts[j] \in FrameTokens)
              => ParseInt(ts[i]) < ParseInt(ts[j])
    /\ Cardinality({i \in DOMAIN ts : ts[i] \in BadTokens}) <= 1
Runs == {ts \in SeqsUpTo(TitleChoices, MaxBlocks) : IsRun(ts)}

ChargeHeader == <<"1", "H", "\t", "2", "C">>
ChargeRow(d, k) == <<Str(d), ".", Str(k), "\t", "0">>
ChargeLines(d, rows) == <<ChargeHeader>> \o [k \in 1..rows |-> ChargeRow(d, k)]

\* a scr* directory, described by what its files hold: either file may be
\* missing; charge.xls has one row per block, or (under intact titles) has lost
\* its last row
ScrDir(ts, rows, hc, hq) ==
    [has_coors |-> hc, has_charge |-> hq, titles |-> ts, rows |-> rows]

\* coors_file.readlines() and charge_file.readlines() in the directory at
\* position d of the sorted glob
ReadCoors(directory, d) == CoorsLines(directory.titles, d, 1)
ReadCharges(directory, d) == ChargeLines(d, directory.rows)

RowCounts(ts) ==
    {Len(ts)} \cup (IF ts # <<>> /\ Range(ts) \subseteq FrameTokens THEN {Len(ts) - 1} ELSE {})
ScrDirs ==
    {ScrDir(<<>>, 0, FALSE, TRUE), ScrDir(<<>>, 0, TRUE, FALSE)}
    \cup UNION {{ScrDir(ts, rows, TRUE, TRUE) : rows \in RowCounts(ts)} : ts \in Runs}

\* a combined file left behind by an earlier call
StaleCoors == File(<<CountLine, TitleLine("9"), AtomLine(9, 9)>>)
StaleCharges == File(<<ChargeHeader, ChargeRow(9, 9)>>)

----------------------------------------------------------------------------
(* combine_restarts *)

lines_per_frame == atom_count + 2

\* the title-line loop: 0-based i = 1, 1 + lines_per_frame, ...; a title whose
\* third token is missing or is no integer is skipped with a warning
RECURSIVE ScanTitles(_, _)
ScanTitles(coors_lines, i) ==
    IF i >= Len(coors_lines) THEN <<>>
    ELSE LET title_line == At0(coors_lines, i)
             parsed == Len(title_line) > 2 /\ IsIntToken(At0(title_line, 2))
         IN  (IF parsed
              THEN <<[frame_number |-> ParseInt(At0(title_line, 2)), frame_index |-> i - 1]>>
              ELSE <<>>)
             \o ScanTitles(coors_lines, i + lines_per_frame)

FrameNumbers(coors_lines) ==
    LET t == ScanTitles(coors_lines, 1) IN [k \in DOMAIN t |-> t[k].frame_number]
FrameIndices(coors_lines) ==
    LET t == ScanTitles(coors_lines, 1) IN [k \in DOMAIN t |-> t[k].frame_index]

\* the first index whose frame number exceeds the watermark; 0 when there is none
ValidStartIdx(frame_numbers, watermark) ==
    LET above == {idx \in 0..(Len(frame_numbers) - 1) : At0(frame_numbers, idx) > watermark}
    IN  IF above = {} THEN 0 ELSE CHOOSE idx \in above : \A other \in above : idx <= other

\* the watermark after a run
UpdatedLastFrame(frame_numbers, watermark) ==
    IF frame_numbers # <<>> THEN frame_numbers[Len(frame_numbers)] ELSE watermark

\* the lines written to the combined coordinate file for one run
RECURSIVE KeptCoors(_, _, _, _)
KeptCoors(coors_lines, frame_indices, idx, stop) ==
    IF idx >= stop THEN <<>>
    ELSE LET start == At0(frame_indices, idx)
             end == start + lines_per_frame
         IN  Slice(coors_lines, start, end) \o KeptCoors(coors_lines, frame_indices, idx + 1, stop)

\* the charge slice without the offset for the header line
KeptChargesNoHeaderOffset(charge_lines, valid_start_idx, frames) ==
    Slice(charge_lines, valid_start_idx, frames + 1)

\* the rows written to the combined charge file for one run
KeptCharges(charge_lines, valid_start_idx, frames) ==
    Slice(charge_lines, valid_start_idx + 1, frames + 1)

\* the header is written for the directory whose enumerate() index is 0
WritesHeader(idx) == idx = 0

\* the validation pass: the lines of the combined file that contain "frame"
CountFrames(lines) == Cardinality({i \in DOMAIN lines : "frame" \in Range(lines[i])})

\* the variables of the functions that are not running
RestartsIdle ==
    /\ directories = <<>> /\ dir_idx = 0 /\ last_frame = 0
    /\ total_frames = 0 /\ combined_frame_count = 0
ConcatIdle ==
    /\ tree = <<>> /\ dirs = <<>> /\ charge_files = <<>> /\ coors_files = <<>>
    /\ raw_charges = NoFile
QmIdle ==
    /\ replicates = <<>> /\ rep_pos = 0 /\ header_written = FALSE

ProjIdle ==
    /\ xyz_list = <<>> /\ xyz_index = 0 /\ xyz_file = <<>> /\ max_atom = 0 /\ atom = 0
    /\ line_count = 0 /\ model_number = 0 /\ new_files = <<>> /\ stdout = <<>>
FilterIdle ==
    /\ orig_file = NoFile /\ read_pos = 0 /\ section_delim = <<>> /\ section = <<>>
    /\ first_line = FALSE /\ incomplete = 0 /\ coors_file_new = NoFile
ListIdle ==
    /\ str_list = <<>> /\ number_list = <<>>
MergeIdle ==
    /\ all_coors = NoFile /\ all_charges = NoFile
    /\ RestartsIdle /\ ConcatIdle /\ QmIdle

InitRestarts ==
    /\ op = "combine_restarts"
    /\ pc = "start"
    /\ \E n \in 0..MaxDirs : directories \in [1..n -> ScrDirs]
    /\ dir_idx = 0
    /\ last_frame = 0
    /\ total_frames = 0
    /\ combined_frame_count = 0
    /\ \E stale \in BOOLEAN :
          /\ all_coors = IF stale THEN StaleCoors ELSE NoFile
          /\ all_charges = IF stale THEN StaleCharges ELSE NoFile
    /\ ConcatIdle /\ QmIdle
    /\ ProjIdle /\ FilterIdle /\ ListIdle

\* lines 277-287: no scr* directory ends the call; otherwise old outputs are removed
RestartsStart ==
    /\ op = "combine_restarts" /\ pc = "start"
    /\ IF directories = <<>>
       THEN pc' = "done" /\ UNCHANGED <<all_coors, all_charges>>
       ELSE pc' = "loop" /\ all_coors' = NoFile /\ all_charges' = NoFile
    /\ UNCHANGED <<toolVars, op, restartVars, concatVars, qmVars>>

\* lines 298-300: a directory without coors.xyz or charge.xls is skipped
RestartsSkip ==
    /\ op = "combine_restarts" /\ pc = "loop" /\ dir_idx < Len(directories)
    /\ LET directory == At0(directories, dir_idx)
       IN  ~directory.has_coors \/ ~directory.has_charge
    /\ dir_idx' = dir_idx + 1
    /\ UNCHANGED <<toolVars, op, pc, directories, last_frame, total_frames, combined_frame_count,
                   all_coors, all_charges, concatVars, qmVars>>

\* lines 302-354: one directory with both files
RestartsProcess ==
    /\ op = "combine_restarts" /\ pc = "loop" /\ dir_idx < Len(directories)
    /\ LET directory == At0(directories, dir_idx)
           coors_lines == ReadCoors(directory, dir_idx + 1)
           charge_lines == ReadCharges(directory, dir_idx + 1)
           frame_numbers == FrameNumbers(coors_lines)
           frame_indices == FrameIndices(coors_lines)
           valid_start_idx == ValidStartIdx(frame_numbers, last_frame)
           header == IF WritesHeader(dir_idx) THEN <<At0(charge_lines, 0)>> ELSE <<>>
       IN  /\ directory.has_coors /\ directory.has_charge
           /\ last_frame' = UpdatedLastFrame(frame_numbers, last_frame)
           /\ all_coors' = AppendLines(all_coors,
                  KeptCoors(coors_lines, frame_indices, valid_start_idx, Len(frame_numbers)))
           /\ IF WritesHeader(dir_idx) /\ charge_lines = <<>>
              THEN \* charge_lines[0] of an empty file
                   /\ all_charges' = AppendLines(all_charges, <<>>)
                   /\ pc' = "IndexError"
                   /\ UNCHANGED <<dir_idx, total_frames>>
              ELSE /\ all_charges' = AppendLines(all_charges,
                          header \o KeptCharges(charge_lines, valid_start_idx, Len(frame_numbers)))
                   /\ total_frames' = total_frames + Len(frame_numbers) - valid_start_idx
                   /\ IF frame_numbers = <<>>
                      THEN \* the report reads frame_numbers[valid_start_idx]
                           pc' = "IndexError" /\ UNCHANGED dir_idx
                      ELSE pc' = pc /\ dir_idx' = dir_idx + 1
    /\ UNCHANGED <<toolVars, op, directories, combined_frame_count, concatVars, qmVars>>

\* lines 356-372: count the frames of the combined file and report
RestartsSummary ==
    /\ op = "combine_restarts" /\ pc = "loop" /\ dir_idx = Len(directories)
    /\ IF all_coors.exists
       THEN pc' = "done" /\ combined_frame_count' = CountFrames(all_coors.lines)
       ELSE pc' = "FileNotFoundError" /\ UNCHANGED combined_frame_count
    /\ UNCHANGED <<toolVars, op, directories, dir_idx, last_frame, total_frames, all_coors, all_charges,
                   concatVars, qmVars>>

----------------------------------------------------------------------------
(* What combine_restarts was given and what it wrote *)

StrictlyIncreasing(ns) == \A i, j \in DOMAIN ns : i < j => ns[i] < ns[j]

\* the directories that have both files, i.e. the runs that are not skipped
IsProcessed(directory) == directory.has_coors /\ directory.has_charge
ProcessedDirs == {d \in DOMAIN directories : IsProcessed(directories[d])}

\* the frame numbers a run's title lines carry
RunFrames(d) == FrameNumbers(ReadCoors(directories[d], d))

\* the frame numbers of the blocks in the combined coordinate file, in file order
WrittenFrames == FrameNumbers(all_coors.lines)
\* the blocks in the combined coordinate file, counted by their atom-count lines
WrittenBlocks == Cardinality({i \in DOMAIN all_coors.lines : all_coors.lines[i] = CountLine})
\* the header lines and the data rows in the combined charge file
WrittenHeaders ==
    Cardinality({i \in DOMAIN all_charges.lines : all_charges.lines[i] = ChargeHeader})
WrittenRows ==
    Cardinality({i \in DOMAIN all_charges.lines : all_charges.lines[i] # ChargeHeader})

RestartsEnded == op = "combine_restarts" /\ pc = "done" /\ directories # <<>>

\* C1: when every run's frame numbers strictly increase, the frame numbers of the
\* blocks in the combined coordinate file strictly increase, so none appears twice.
C1_WrittenFramesIncrease ==
    (RestartsEnded /\ \A d \in ProcessedDirs : StrictlyIncreasing(RunFrames(d)))
        => StrictlyIncreasing(WrittenFrames)

\* C2: a run none of whose blocks has a frame number above the watermark adds no
\* coordinate block and no charge row, and leaves the watermark as it was.
C2_NoFrameAboveWatermark ==
    /\ op = "combine_restarts" /\ pc = "loop" /\ dir_idx < Len(directories)
    /\ IsProcessed(At0(directories, dir_idx))
    /\ \A n \in Range(RunFrames(dir_idx + 1)) : ~(n > last_frame)
C2_OverlappedRunDropped ==
    [][C2_NoFrameAboveWatermark =>
          /\ WrittenBlocks' = WrittenBlocks
          /\ WrittenRows' = WrittenRows
          /\ last_frame' = last_frame]_vars

\* every charge.xls read holds the header and one row per block of its coors.xyz
OneRowPerBlock ==
    \A d \in ProcessedDirs : directories[d].rows = Len(directories[d].titles)

\* C3: when every run's charge file holds one row per coordinate block, the
\* combined coordinate file holds as many blocks as the combined charge file
\* holds data rows, after every run and at the end.
C3_BlocksEqualRows ==
    (op = "combine_restarts" /\ pc # "start" /\ directories # <<>> /\ OneRowPerBlock)
        => WrittenBlocks = WrittenRows
\* the call ended after two runs, the second of which lost blocks to the overlap
C3_Witness ==
    /\ RestartsEnded /\ OneRowPerBlock
    /\ ProcessedDirs = {1, 2}
    /\ WrittenBlocks >= 2
    /\ WrittenBlocks < Len(directories[1].titles) + Len(directories[2].titles)
    /\ Len(RunFrames(2)) = Len(directories[2].titles)
    /\ \E n \in Range(RunFrames(2)) : n > RunFrames(1)[Len(RunFrames(1))]

\* C4: a run whose kept coordinate frames and kept charge rows differ in number
\* makes combine_restarts fail with StructuralMismatch.
C4_MismatchIsFatal ==
    [][(op = "combine_restarts" /\ pc = "loop"
        /\ WrittenBlocks' - WrittenBlocks # WrittenRows' - WrittenRows)
          => pc' = "StructuralMismatch"]_vars

\* the stitcher applied to one run with the initial watermark 0
StitchOneRun(coors_lines) ==
    LET frame_numbers == FrameNumbers(coors_lines)
    IN  KeptCoors(coors_lines, FrameIndices(coors_lines),
                  ValidStartIdx(frame_numbers, 0), Len(frame_numbers))

\* C5: the combined coordinate file, stitched again as a single run from the
\* watermark 0, comes out unchanged.
C5_StitchIdempotent ==
    RestartsEnded => StitchOneRun(all_coors.lines) = all_coors.lines

\* C6: when at least one run is processed, the combined charge file holds the
\* header line exactly once, whichever directories are skipped.
C6_HeaderOnce ==
    (RestartsEnded /\ ProcessedDirs # {}) => WrittenHeaders = 1

\* block k of run d stands in the combined coordinate file, and row k of run d
\* in the combined charge file
BlockWritten(d, k) == \E i \in DOMAIN all_coors.lines : all_coors.lines[i] = AtomLine(d, k)
RowWritten(d, k) == \E i \in DOMAIN all_charges.lines : all_charges.lines[i] = ChargeRow(d, k)

\* C20: for every run whose charge file has one row per block, the row at
\* position k is in the combined charge file iff the block at position k is in
\* the combined coordinate file, also when a block with a damaged title line
\* was skipped.
C20_RowsFollowBlocks ==
    op = "combine_restarts" =>
        \A d \in ProcessedDirs :
            directories[d].rows = Len(directories[d].titles) =>
                \A k \in DOMAIN directories[d].titles : RowWritten(d, k) <=> BlockWritten(d, k)

\* C22: combine_restarts raises no exception: a run without a parsable frame
\* and a call in which every directory is skipped both go on to the summary.
C22_ReachesSummary ==
    op = "combine_restarts" => pc \notin {"IndexError", "FileNotFoundError"}

----------------------------------------------------------------------------
(* Strings as character sequences *)

\* ord(c) for the characters that occur in directory names and charge lines
Ord ==
    ("\t" :> 9) @@ (" " :> 32) @@ ("-" :> 45) @@ ("." :> 46) @@ ("/" :> 47)
    @@ ("0" :> 48) @@ ("1" :> 49) @@ ("2" :> 50) @@ ("3" :> 51) @@ ("4" :> 52)
    @@ ("5" :> 53) @@ ("6" :> 54) @@ ("7" :> 55) @@ ("8" :> 56) @@ ("9" :> 57)
    @@ ("A" :> 65) @@ ("B" :> 66) @@ ("C" :> 67) @@ ("H" :> 72)
    @@ ("a" :> 97) @@ ("c" :> 99) @@ ("e" :> 101) @@ ("i" :> 105) @@ ("l" :> 108)
    @@ ("n" :> 110) @@ ("p" :> 112) @@ ("r" :> 114) @@ ("s" :> 115) @@ ("t" :> 116)
    @@ ("y" :> 121)

\* s < t for Python strings: code points compared at the first difference, and a
\* proper prefix is smaller
StrLess(s, t) ==
    \E k \in 1..(Min(Len(s), Len(t)) + 1) :
        /\ \A i \in 1..(k - 1) : s[i] = t[i]
        /\ k <= Len(t)
        /\ (k <= Len(s) => Ord[s[k]] < Ord[t[k]])

\* sub in line
Contains(line, sub) ==
    \E i \in 1..(Len(line) - Len(sub) + 1) : SubSeq(line, i, i + Len(sub) - 1) = sub

\* line.strip(): leading and trailing whitespace removed
Whitespace == {" ", "\t", "\n"}
Strip(line) ==
    LET inked == {i \in DOMAIN line : line[i] \notin Whitespace}
    IN  IF inked = {} THEN <<>>
        ELSE SubSeq(line, CHOOSE i \in inked : \A j \in inked : i <= j,
                          CHOOSE i \in inked : \A j \in inked : i >= j)

\* the glob result used in the order it was found
Unsorted(paths) == paths

\* sorted(paths) of distinct strings
RECURSIVE Sorted(_)
Sorted(paths) ==
    IF paths = <<>> THEN <<>>
    ELSE LET rest == Sorted(Tail(paths))
             before == Cardinality({i \in DOMAIN rest : StrLess(rest[i], Head(paths))})
         IN  SubSeq(rest, 1, before) \o <<Head(paths)>> \o SubSeq(rest, before + 1, Len(rest))

\* the lines of the files named by a list, one file after the other
RECURSIVE Concat(_)
Concat(files) == IF files = <<>> THEN <<>> ELSE Head(files) \o Concat(Tail(files))

\* the subsequence of s whose items satisfy Keep
RECURSIVE SelectIdx(_, _, _)
SelectIdx(s, keep, i) ==
    IF i > Len(s) THEN <<>>
    ELSE (IF i \in keep THEN <<s[i]>> ELSE <<>>) \o SelectIdx(s, keep, i + 1)

----------------------------------------------------------------------------
(* Input files of the concatenators *)

MaxRows == 2         \* at most this many data rows in one replicate's all_charges.xls

\* replicate directory names, and the Analysis directory that holds no data files
RepNames == {<<"A">>, <<"A", ".", "1">>, <<"B">>}
AnalysisName == <<"A", "n", "a", "l", "y", "s", "i", "s">>
NameList == <<<<"A">>, <<"A", ".", "1">>, <<"B">>, AnalysisName>>
RepId(name) == CHOOSE i \in DOMAIN NameList : NameList[i] = name

\* what glob("*/") returns for a directory, and the directory name of such a path
Path(name) == name \o <<"/">>
NameOf(path) == SubSeq(path, 1, Len(path) - 1)

\* the header is a row of atom names or a row of atom indices
HeaderKinds == {"names", "indices"}
HeaderLine(hdr) == IF hdr = "names" THEN ChargeHeader ELSE <<"0", "\t", "1">>
\* a data row holds charges, or nan where the calculation failed
RowKinds == {"charges", "nan"}
RepRow(name, k, kind) ==
    <<Str(RepId(name)), ".", Str(k), "\t">> \o (IF kind = "nan" THEN <<"n", "a", "n">> ELSE <<"0">>)

\* a replicate directory, described by what its files hold: all_coors.xyz has
\* one block per row of all_charges.xls
RepDir(hdr, rows, hc, hq) ==
    [hdr |-> hdr, has_coors |-> hc, has_charges |-> hq, rows |-> rows]
RepDirs(hdr) ==
    {RepDir(hdr, <<>>, hc, hq) : hc \in BOOLEAN, hq \in BOOLEAN}
    \cup {RepDir(hdr, rows, TRUE, TRUE) : rows \in SeqsUpTo(RowKinds, MaxRows) \ {<<>>}}
\* the lines of <name>/all_charges.xls and of <name>/all_coors.xyz
ReadAllCharges(name) ==
    <<HeaderLine(tree[name].hdr)>>
        \o [k \in 1..Len(tree[name].rows) |-> RepRow(name, k, tree[name].rows[k])]
ReadAllCoors(name) ==
    CoorsLines([k \in 1..Len(tree[name].rows) |-> Str(k)], RepId(name), 1)

\* the orders in which glob may list the directories
Orderings(S) ==
    {f \in [1..Cardinality(S) -> S] : \A i, j \in 1..Cardinality(S) : i # j => f[i] # f[j]}

----------------------------------------------------------------------------
(* combine_replicates *)

\* the header filter: the first line is kept, later lines that contain "H" are not
CleanCharges(lines) ==
    SelectIdx(lines, {i \in DOMAIN lines : i = 1 \/ ~Contains(lines[i], <<"H">>)}, 1)

\* the directories that hold both files, in the order of dirs
WithBothFiles(ds) ==
    SelectIdx(ds, {i \in DOMAIN ds : /\ tree[NameOf(ds[i])].has_charges
                                     /\ tree[NameOf(ds[i])].has_coors}, 1)

InitReplicates ==
    /\ op = "combine_replicates"
    /\ pc = "start"
    /\ \E hdr \in HeaderKinds, S \in SUBSET RepNames, A \in {{}, {AnalysisName}} :
          /\ tree \in [S \cup A -> RepDirs(hdr)]
          /\ \A a \in A : ~tree[a].has_coors /\ ~tree[a].has_charges
    /\ dirs = <<>> /\ charge_files = <<>> /\ coors_files = <<>>
    /\ raw_charges = NoFile
    /\ \E stale \in BOOLEAN :
          /\ all_coors = IF stale THEN StaleCoors ELSE NoFile
          /\ all_charges = IF stale THEN StaleCharges ELSE NoFile
    /\ RestartsIdle /\ QmIdle
    /\ ProjIdle /\ FilterIdle /\ ListIdle

\* lines 404-412: the sorted glob, and the directories that hold both files
ReplicatesStart ==
    /\ op = "combine_replicates" /\ pc = "start"
    /\ \E found \in Orderings({Path(name) : name \in DOMAIN tree}) :
          /\ dirs' = Sorted(found)
          /\ charge_files' = WithBothFiles(dirs')
          /\ coors_files' = WithBothFiles(dirs')
    /\ pc' = "concat"
    /\ UNCHANGED <<toolVars, op, all_coors, all_charges, tree, raw_charges, restartVars, qmVars>>

\* lines 414-422: both kinds of file are copied end to end
ReplicatesConcat ==
    /\ op = "combine_replicates" /\ pc = "concat"
    /\ raw_charges' =
          File(Concat([i \in DOMAIN charge_files |-> ReadAllCharges(NameOf(charge_files[i]))]))
    /\ all_coors' =
          File(Concat([i \in DOMAIN coors_files |-> ReadAllCoors(NameOf(coors_files[i]))]))
    /\ pc' = "clean"
    /\ UNCHANGED <<toolVars, op, all_charges, tree, dirs, charge_files, coors_files, restartVars, qmVars>>

\* lines 424-440: the extra headers are filtered out and the raw file is removed
ReplicatesClean ==
    /\ op = "combine_replicates" /\ pc = "clean"
    /\ all_charges' = File(CleanCharges(raw_charges.lines))
    /\ raw_charges' = NoFile
    /\ pc' = "done"
    /\ UNCHANGED <<toolVars, op, all_coors, tree, dirs, charge_files, coors_files, restartVars, qmVars>>

----------------------------------------------------------------------------
(* combine_qm_replicates *)

ignore == {Path(AnalysisName)}

\* the column appended to the header
ReplicateColumn == <<"\t", "r", "e", "p", "l", "i", "c", "a", "t", "e">>

\* lines 1190-1200: what one replicate's charge file adds to the master file
RECURSIVE QmLines(_, _, _, _)
QmLines(lines, index, written, replicate_number) ==
    IF index >= Len(lines) THEN <<>>
    ELSE LET line == At0(lines, index)
         IN  IF index = 0
             THEN (IF ~written THEN <<Strip(line) \o ReplicateColumn>>
                   ELSE <<>>)
                  \o QmLines(lines, index + 1, TRUE, replicate_number)
             ELSE (IF Contains(line, <<"n", "a", "n">>) THEN <<>>
                   ELSE <<Strip(line) \o <<"\t">> \o replicate_number>>)
                  \o QmLines(lines, index + 1, written, replicate_number)

InitQm ==
    /\ op = "combine_qm_replicates"
    /\ pc = "start"
    /\ \E hdr \in HeaderKinds, S \in SUBSET RepNames, A \in {{}, {AnalysisName}} :
          /\ tree \in [S \cup A -> RepDirs(hdr)]
          /\ \A a \in A : ~tree[a].has_coors /\ ~tree[a].has_charges
          /\ \A name \in S : tree[name].has_coors
    /\ dirs = <<>> /\ charge_files = <<>> /\ coors_files = <<>>
    /\ raw_charges = NoFile
    /\ all_coors = NoFile
    /\ \E stale \in BOOLEAN : all_charges = IF stale THEN StaleCharges ELSE NoFile
    /\ replicates = <<>> /\ rep_pos = 0 /\ header_written = FALSE
    /\ RestartsIdle
    /\ ProjIdle /\ FilterIdle /\ ListIdle

\* lines 1166-1179: the sorted glob without the ignored names; the old master file
\* is removed and a new one opened for appending
QmStart ==
    /\ op = "combine_qm_replicates" /\ pc = "start"
    /\ \E found \in Orderings({Path(name) : name \in DOMAIN tree}) :
          LET directories_ == Sorted(found)
          IN  replicates' =
                  SelectIdx(directories_, {i \in DOMAIN directories_ : directories_[i] \notin ignore}, 1)
    /\ all_charges' = File(<<>>)
    /\ header_written' = FALSE
    /\ pc' = "loop"
    /\ UNCHANGED <<toolVars, op, all_coors, rep_pos, restartVars, concatVars>>

\* lines 1180-1202: one replicate; opening a charge file that is not there raises
QmReplicate ==
    /\ op = "combine_qm_replicates" /\ pc = "loop" /\ rep_pos < Len(replicates)
    /\ LET replicate == At0(replicates, rep_pos)
           replicate_number == NameOf(replicate)
       IN  IF ~tree[replicate_number].has_charges
           THEN pc' = "FileNotFoundError" /\ UNCHANGED <<all_charges, header_written, rep_pos>>
           ELSE LET lines == ReadAllCharges(replicate_number)
                IN  /\ all_charges' = AppendLines(all_charges,
                            QmLines(lines, 0, header_written, replicate_number))
                    /\ header_written' = (header_written \/ lines # <<>>)
                    /\ rep_pos' = rep_pos + 1
                    /\ pc' = pc
    /\ UNCHANGED <<toolVars, op, all_coors, replicates, restartVars, concatVars>>

\* lines 1204-1213: the report
QmSummary ==
    /\ op = "combine_qm_replicates" /\ pc = "loop" /\ rep_pos = Len(replicates)
    /\ pc' = "done"
    /\ UNCHANGED <<toolVars, op, all_coors, all_charges, restartVars, concatVars, qmVars>>

----------------------------------------------------------------------------
(* What the concatenators were given and what they wrote *)

\* the data rows of a replicate's charge file, and the same rows tagged with its name
DataRows(name) == Tail(ReadAllCharges(name))
TaggedRows(name) ==
    [k \in 1..Len(DataRows(name)) |-> DataRows(name)[k] \o <<"\t">> \o name]
TheHeader == HeaderLine(tree[CHOOSE name \in DOMAIN tree : TRUE].hdr)

\* C7: the merged charge file of combine_replicates is the header once, as its
\* first line, followed by every data row of every merged replicate; no header
\* of a later replicate remains.
C7_OneHeaderAllRows ==
    (op = "combine_replicates" /\ pc = "done" /\ charge_files # <<>>)
        => all_charges.lines =
               <<TheHeader>> \o Concat([i \in DOMAIN charge_files |-> DataRows(NameOf(charge_files[i]))])

\* C8: the master charge file of combine_qm_replicates is the header with the
\* column "replicate" followed by every data row of every replicate, tagged with
\* its directory name, in the original order.
C8_AllRowsTagged ==
    (op = "combine_qm_replicates" /\ pc = "done" /\ replicates # <<>>)
        => all_charges.lines =
               <<TheHeader \o ReplicateColumn>>
                   \o Concat([i \in DOMAIN replicates |-> TaggedRows(NameOf(replicates[i]))])

\* the replicate directories in increasing order of a comparison of names
InOrder(Less(_, _)) ==
    CHOOSE f \in Orderings(DOMAIN tree) :
        \A i, j \in DOMAIN f : i < j => Less(f[i], f[j])
NameLess(a, b) == StrLess(a, b)
PathLess(a, b) == StrLess(Path(a), Path(b))

\* what combine_replicates writes when it visits the directories in a given order
MergedNames(order) ==
    SelectIdx(order, {i \in DOMAIN order : /\ tree[order[i]].has_charges
                                           /\ tree[order[i]].has_coors}, 1)
MergedCoors(order) ==
    Concat([i \in DOMAIN MergedNames(order) |-> ReadAllCoors(MergedNames(order)[i])])
MergedCharges(order) ==
    CleanCharges(Concat([i \in DOMAIN MergedNames(order) |-> ReadAllCharges(MergedNames(order)[i])]))

\* what combine_qm_replicates writes when it visits the directories in a given
\* order and finds a charge file in each
RECURSIVE MasterCharges(_, _, _)
MasterCharges(order, i, written) ==
    IF i > Len(order) THEN <<>>
    ELSE IF order[i] = AnalysisName THEN MasterCharges(order, i + 1, written)
    ELSE QmLines(ReadAllCharges(order[i]), 0, written, order[i])
             \o MasterCharges(order, i + 1, TRUE)

ConcatEnded == op \in {"combine_replicates", "combine_qm_replicates"} /\ pc = "done"

OutputsFollow(order) ==
    /\ op = "combine_replicates" =>
          all_coors.lines = MergedCoors(order) /\ all_charges.lines = MergedCharges(order)
    /\ op = "combine_qm_replicates" => all_charges.lines = MasterCharges(order, 1, FALSE)

C10_RestartsLacksFile ==
    /\ op = "combine_restarts" /\ pc = "loop" /\ dir_idx < Len(directories)
    /\ ~IsProcessed(At0(directories, dir_idx))
C10_QmLacksFile ==
    /\ op = "combine_qm_replicates" /\ pc = "loop" /\ rep_pos < Len(replicates)
    /\ ~tree[NameOf(At0(replicates, rep_pos))].has_charges
C10_MissingFileSkipped ==
    /\ [][C10_RestartsLacksFile =>
             /\ pc' = "loop" /\ dir_idx' = dir_idx + 1
             /\ UNCHANGED <<last_frame, all_coors, all_charges>>]_vars
    /\ [][C10_QmLacksFile =>
             /\ pc' = "loop" /\ rep_pos' = rep_pos + 1
             /\ UNCHANGED all_charges]_vars
    /\ [](op = "combine_replicates" /\ pc = "done" =>
             \A name \in DOMAIN tree :
                 (tree[name].has_charges /\ tree[name].has_coors)
                     => \E i \in DOMAIN charge_files : charge_files[i] = Path(name))

----------------------------------------------------------------------------

Init == InitRestarts \/ InitReplicates \/ InitQm

Next ==
    \/ RestartsStart
    \/ RestartsSkip
    \/ RestartsProcess
    \/ RestartsSummary
    \/ ReplicatesStart
    \/ ReplicatesConcat
    \/ ReplicatesClean
    \/ QmStart
    \/ QmReplicate
    \/ QmSummary

Spec == Init /\ [][Next]_vars

----------------------------------------------------------------------------
(* Raw text: a line is the sequence of its characters, newline included *)

Digits == Range(IntTokens)

\* int(s) for a character sequence: accepted when s is a non-empty digit string
IsInt(s) == s # <<>> /\ \A i \in DOMAIN s : s[i] \in Digits

RECURSIVE IntOf(_)
IntOf(s) ==
    IF Len(s) = 1 THEN ParseInt(s[1])
    ELSE 10 * IntOf(SubSeq(s, 1, Len(s) - 1)) + ParseInt(s[Len(s)])

\* s.split(): the maximal runs of characters that are not whitespace
RECURSIVE Split(_)
Split(s) ==
    IF s = <<>> THEN <<>>
    ELSE IF Head(s) \in Whitespace THEN Split(Tail(s))
    ELSE LET stops == {i \in DOMAIN s : s[i] \in Whitespace}
             n == IF stops = {} THEN Len(s)
                  ELSE (CHOOSE i \in stops : \A j \in stops : i <= j) - 1
         IN  <<SubSeq(s, 1, n)>> \o Split(SubSeq(s, n + 1, Len(s)))

\* s.strip("\n")
RECURSIVE StripNewlines(_)
StripNewlines(s) ==
    IF s = <<>> THEN <<>>
    ELSE IF Head(s) = "\n" THEN StripNewlines(Tail(s))
    ELSE IF s[Len(s)] = "\n" THEN StripNewlines(SubSeq(s, 1, Len(s) - 1))
    ELSE s

\* " ".join(tokens)
RECURSIVE Join(_)
Join(tokens) ==
    IF tokens = <<>> THEN <<>>
    ELSE IF Len(tokens) = 1 THEN tokens[1]
    ELSE tokens[1] \o <<" ">> \o Join(Tail(tokens))

Spaces(n) == [i \in 1..n |-> " "]

----------------------------------------------------------------------------
(* Input files of the structure projector *)

\* the template: TemplateAtoms atom records of 80 columns, then TER and END
PdbRecord(i) ==
    <<"A", "T", "O", "M">> \o Spaces(6) \o <<Str(i)>> \o Spaces(2) \o <<"C", "A">>
    \o Spaces(2) \o <<"A", "L", "A", " ", "A">> \o Spaces(3) \o <<Str(i)>> \o Spaces(4)
    \o Spaces(3) \o <<"0", ".", "0", "0", "0">> \o Spaces(3) \o <<"0", ".", "0", "0", "0">>
    \o Spaces(3) \o <<"0", ".", "0", "0", "0">>
    \o Spaces(2) \o <<"1", ".", "0", "0">> \o Spaces(2) \o <<"0", ".", "0", "0">>
    \o Spaces(11) \o <<"C">> \o Spaces(2) \o <<"\n">>
pdb_file ==
    [i \in 1..TemplateAtoms |-> PdbRecord(i)]
    \o << <<"T", "E", "R", "\n">>, <<"E", "N", "D", "\n">> >>
protein_name == <<"T", "M", "P", "L">>

\* a coordinate token carrying the digit d: six characters as the producer
\* writes it, or shorter, or longer
CoordKinds == {"six", "short", "long"}
OddKinds == {"short", "long", "few", "many"}
CoordToken(d, kind) ==
    IF kind = "short" THEN <<Str(d), ".", "5">>
    ELSE IF kind = "long" THEN <<Str(d), ".", "0", "0", "0", "0", "0", "9">>
    ELSE <<Str(d), ".", "0", "0", "0", "0">>

XyzCountLine == <<Str(TemplateAtoms), "\n">>
\* the title line of frame k: three tokens, or four with a unit after the number
TitleKinds == {"plain", "unit"}
XyzTitleLine(k, title) ==
    <<"M", "D", ":", " ", "f", "r", "a", "m", "e", " ", Str(k)>>
    \o (IF title = "unit" THEN <<" ", "f", "s">> ELSE <<>>) \o <<"\n">>
\* the line of atom a of frame k: element, x, y, z; kind "few" lacks z and kind
\* "many" has a fifth token
XyzAtomTokens(k, a, kind) ==
    LET width == IF kind \in CoordKinds THEN kind ELSE "six"
        xy == << <<"C">>, CoordToken(k, width), CoordToken(a, width) >>
    IN  IF kind = "few" THEN xy
        ELSE IF kind = "many" THEN xy \o <<CoordToken(0, width), <<"9">> >>
        ELSE xy \o <<CoordToken(0, width)>>
XyzAtomLine(k, a, kind) == Join(XyzAtomTokens(k, a, kind)) \o <<"\n">>

\* a coordinate file: the number of atom lines of each frame, the kind of its
\* title lines, and at most one atom line (the odd_at-th of the file) that is
\* not of kind "six"
RECURSIVE Sum(_)
Sum(s) == IF s = <<>> THEN 0 ELSE Head(s) + Sum(Tail(s))
FrameShapes == SeqsUpTo(0..(TemplateAtoms + 1), MaxBlocks)
XyzFilesOfShape(shape) ==
    {[atoms |-> shape, title |-> title, odd_at |-> 0, odd |-> "six"] : title \in TitleKinds}
    \cup {[atoms |-> shape, title |-> title, odd_at |-> p, odd |-> kind] :
             title \in TitleKinds, p \in 1..Sum(shape), kind \in OddKinds}
XyzFiles == UNION {XyzFilesOfShape(shape) : shape \in FrameShapes}
GoodXyz == [atoms |-> <<TemplateAtoms>>, title |-> "plain", odd_at |-> 0, odd |-> "six"]

\* open(xyz, "r").readlines(): frames k.. of the file, after `before` atom lines
RECURSIVE XyzLines(_, _, _)
XyzLines(file, k, before) ==
    IF k > Len(file.atoms) THEN <<>>
    ELSE <<XyzCountLine, XyzTitleLine(k, file.title)>>
         \o [a \in 1..file.atoms[k] |->
                XyzAtomLine(k, a, IF before + a = file.odd_at THEN file.odd ELSE "six")]
         \o XyzLines(file, k + 1, before + file.atoms[k])
ReadXyz(file) == XyzLines(file, 1, 0)

----------------------------------------------------------------------------
(* The structure projector: xyz2pdb, xyz2pdb_traj, xyz2pdb_ensemble *)

\* int(pdb_file[len(pdb_file) - 3].split()[1])
MaxAtom == IntOf(At0(Split(At0(pdb_file, Len(pdb_file) - 3)), 1))

\* line.strip("\n").split()[1:5]
CoordinatesFromElement(line) == Slice(Split(StripNewlines(line)), 0, 3)
Coordinates(line) == Slice(Split(StripNewlines(line)), 1, 5)

\* pdb_file[atom - 2]: the template index for the counter value n
TemplateIndexOneBehind(n) == n - 1
TemplateIndex(n) == n - 2

\* f"{pdb_line[0:30]}{x[0:6]}  {y[0:6]}  {z[0:6]}  {pdb_line[54:80]}"
Record(pdb_line, x, y, z) ==
    Slice(pdb_line, 0, 30) \o Slice(x, 0, 6) \o Spaces(2) \o Slice(y, 0, 6) \o Spaces(2)
    \o Slice(z, 0, 6) \o Spaces(2) \o Slice(pdb_line, 54, 80)

EndLine == <<"E", "N", "D", "\n">>
TerLine == <<"T", "E", "R", "\n">>
EndmdlLine == <<"E", "N", "D", "M", "D", "L", "\n">>
\* f"MODEL        {str(model_number)}\n"
ModelLine(n) == <<"M", "O", "D", "E", "L">> \o Spaces(8) \o <<Str(n), "\n">>
PdbHeader(name) == name \o <<"\n">>

\* lines 806-808: what closes a model
EnsembleClosingSwapped(n) == <<EndmdlLine, TerLine, ModelLine(n)>>
EnsembleClosing(n) == <<TerLine, EndmdlLine, ModelLine(n)>>

\* a report printed before quit()
Died(n, line) == [line_count |-> n, line |-> line]

\* One pass of the loop body over the next line of xyz_file.  `ending` is what
\* follows pdb_line[54:80] in a record, `closing` the lines written when the atom
\* counter passes max_atom, `models` the increment of model_number there, and
\* `guarded` tells whether the unpacking stands in a try block.
LineBody(ending, closing, models, guarded) ==
    LET line == At0(xyz_file, line_count)
        coords == Coordinates(line)
        stepped == atom + 1
    IN  /\ line_count' = line_count + 1
        /\ IF atom > 0 /\ Len(coords) # 3
           THEN /\ atom' = stepped
                /\ IF guarded
                   THEN /\ pc' = "SystemExit"
                        /\ stdout' = Append(stdout, Died(line_count + 1, line))
                   ELSE /\ pc' = "ValueError"
                        /\ UNCHANGED stdout
                /\ UNCHANGED <<new_files, model_number>>
           ELSE LET pdb_line == At0(pdb_file, TemplateIndex(stepped))
                    records == IF atom > 0
                               THEN <<Record(pdb_line, coords[1], coords[2], coords[3])
                                      \o ending>>
                               ELSE <<>>
                    rollover == stepped > max_atom
                IN  /\ atom' = IF rollover THEN -1 ELSE stepped
                    /\ new_files' = [new_files EXCEPT ![Len(new_files)] =
                           AppendLines(@, records \o IF rollover THEN closing ELSE <<>>)]
                    /\ model_number' = IF rollover THEN model_number + models
                                       ELSE model_number
                    /\ UNCHANGED <<pc, stdout>>

InitProjector ==
    /\ op \in {"xyz2pdb", "xyz2pdb_traj", "xyz2pdb_ensemble"}
    /\ pc = "start"
    /\ \E first \in XyzFiles :
          xyz_list \in IF op = "xyz2pdb" THEN {<<first>>, <<first, GoodXyz>>}
                       ELSE {<<first>>}
    /\ xyz_index = 0 /\ xyz_file = <<>> /\ max_atom = 0 /\ atom = 0 /\ line_count = 0
    /\ model_number = 0 /\ new_files = <<>> /\ stdout = <<>>
    /\ MergeIdle /\ FilterIdle /\ ListIdle

\* lines 673-675: the template is read
Xyz2pdbStart ==
    /\ op = "xyz2pdb" /\ pc = "start"
    /\ max_atom' = MaxAtom
    /\ pc' = "files"
    /\ UNCHANGED <<op, xyz_list, xyz_index, xyz_file, atom, line_count, model_number,
                   new_files, stdout, mergeVars, filterVars, listVars>>

\* lines 677-681: the next coordinate file and its output file {index}.pdb
Xyz2pdbOpen ==
    /\ op = "xyz2pdb" /\ pc = "files" /\ xyz_index < Len(xyz_list)
    /\ new_files' = Append(new_files, File(<<>>))
    /\ xyz_file' = ReadXyz(At0(xyz_list, xyz_index))
    /\ atom' = -1
    /\ line_count' = 0
    /\ pc' = "lines"
    /\ UNCHANGED <<op, xyz_list, xyz_index, max_atom, model_number, stdout,
                   mergeVars, filterVars, listVars>>

\* lines 682-699: one line of the current coordinate file
Xyz2pdbLine ==
    /\ op = "xyz2pdb" /\ pc = "lines" /\ line_count < Len(xyz_file)
    /\ LineBody(<<>>, <<EndLine>>, 0, TRUE)
    /\ UNCHANGED <<op, xyz_list, xyz_index, xyz_file, max_atom, mergeVars, filterVars, listVars>>

\* line 677: the current file is exhausted
Xyz2pdbNext ==
    /\ op = "xyz2pdb" /\ pc = "lines" /\ line_count = Len(xyz_file)
    /\ xyz_index' = xyz_index + 1
    /\ pc' = "files"
    /\ UNCHANGED <<op, xyz_list, xyz_file, max_atom, atom, line_count, model_number,
                   new_files, stdout, mergeVars, filterVars, listVars>>

\* lines 701-710: every file is converted
Xyz2pdbEnd ==
    /\ op = "xyz2pdb" /\ pc = "files" /\ xyz_index = Len(xyz_list)
    /\ pc' = "done"
    /\ UNCHANGED <<op, projVars, mergeVars, filterVars, listVars>>

\* lines 728-734: the files are read and the output file is opened
TrajOpen ==
    /\ op = "xyz2pdb_traj" /\ pc = "start"
    /\ xyz_file' = ReadXyz(At0(xyz_list, 0))
    /\ max_atom' = MaxAtom
    /\ new_files' = <<File(<<>>)>>
    /\ atom' = -1
    /\ line_count' = 0
    /\ pc' = "lines"
    /\ UNCHANGED <<op, xyz_list, xyz_index, model_number, stdout,
                   mergeVars, filterVars, listVars>>

\* lines 735-752: one line of the coordinate file
TrajLine ==
    /\ op = "xyz2pdb_traj" /\ pc = "lines" /\ line_count < Len(xyz_file)
    /\ LineBody(<<>>, <<EndLine>>, 0, TRUE)
    /\ UNCHANGED <<op, xyz_list, xyz_index, xyz_file, max_atom, mergeVars, filterVars, listVars>>

\* lines 754-763: the report
TrajEnd ==
    /\ op = "xyz2pdb_traj" /\ pc = "lines" /\ line_count = Len(xyz_file)
    /\ pc' = "done"
    /\ UNCHANGED <<op, projVars, mergeVars, filterVars, listVars>>

\* lines 784-792: the files are read, the output file is opened, and the header
\* line and MODEL 1 are written
EnsembleOpen ==
    /\ op = "xyz2pdb_ensemble" /\ pc = "start"
    /\ xyz_file' = ReadXyz(At0(xyz_list, 0))
    /\ max_atom' = MaxAtom
    /\ new_files' = <<File(<<PdbHeader(protein_name), ModelLine(1)>>)>>
    /\ atom' = -1
    /\ model_number' = 2
    /\ line_count' = 0
    /\ pc' = "lines"
    /\ UNCHANGED <<op, xyz_list, xyz_index, stdout, mergeVars, filterVars, listVars>>

\* lines 794-809: one line of the coordinate file
EnsembleLine ==
    /\ op = "xyz2pdb_ensemble" /\ pc = "lines" /\ line_count < Len(xyz_file)
    /\ LineBody(<<"\n">>, EnsembleClosing(model_number), 1, FALSE)
    /\ UNCHANGED <<op, xyz_list, xyz_index, xyz_file, max_atom, mergeVars, filterVars, listVars>>

\* lines 811-820: the report
EnsembleEnd ==
    /\ op = "xyz2pdb_ensemble" /\ pc = "lines" /\ line_count = Len(xyz_file)
    /\ pc' = "done"
    /\ UNCHANGED <<op, projVars, mergeVars, filterVars, listVars>>

NextProjector ==
    \/ Xyz2pdbStart
    \/ Xyz2pdbOpen
    \/ Xyz2pdbLine
    \/ Xyz2pdbNext
    \/ Xyz2pdbEnd
    \/ TrajOpen
    \/ TrajLine
    \/ TrajEnd
    \/ EnsembleOpen
    \/ EnsembleLine
    \/ EnsembleEnd

SpecProjector == InitProjector /\ [][NextProjector]_vars

----------------------------------------------------------------------------
(* What the projector was given and what it wrote *)

ProjectorOps == {"xyz2pdb", "xyz2pdb_traj", "xyz2pdb_ensemble"}
LastFile(files) == files[Len(files)]

\* the step reads a line as coordinates and writes its record
WroteRecord ==
    /\ op \in ProjectorOps /\ pc = "lines" /\ atom > 0
    /\ line_count' = line_count + 1
    /\ Len(LastFile(new_files').lines) > Len(LastFile(new_files).lines)
WrittenRecord == At0(LastFile(new_files').lines, Len(LastFile(new_files).lines))
TemplateRecord == At0(pdb_file, atom + 1 - 2)

\* C11: every atom record the projector writes carries its template record's
\* bytes [0,30) at [0,30) and its bytes [54,80) at [54,80), whatever the length
\* of the coordinate tokens.
C11_TemplateBytesKept ==
    [][WroteRecord =>
          /\ Slice(WrittenRecord, 0, 30) = Slice(TemplateRecord, 0, 30)
          /\ Slice(WrittenRecord, 54, 80) = Slice(TemplateRecord, 54, 80)]_vars

\* the next line is read as coordinates and does not split into 4 tokens
ReadsMalformed ==
    /\ op \in ProjectorOps /\ pc = "lines" /\ line_count < Len(xyz_file) /\ atom > 0
    /\ Len(Split(At0(xyz_file, line_count))) # 4
Aborted == op \in ProjectorOps /\ pc \in {"SystemExit", "ValueError"}

\* C12: under every framing, a coordinate line that does not split into exactly
\* 4 tokens stops the projector at that line, no record is written for it, and
\* its 1-based position and raw text are reported.
C12_MalformedReported ==
    [][ReadsMalformed =>
          /\ pc' \in {"SystemExit", "ValueError"}
          /\ new_files' = new_files
          /\ stdout' = Append(stdout, Died(line_count + 1, At0(xyz_file, line_count)))]_vars

\* C13: after an abort on a malformed coordinate line the output file of the
\* unit being converted is not on disk.
C13_NoPartialFile == Aborted => ~LastFile(new_files).exists

\* C14: the projector does not run to completion on an input that has a frame
\* whose atom count differs from max_atom.
C14_MismatchIsFatal ==
    (op \in ProjectorOps /\ pc = "done") =>
        \A i \in DOMAIN xyz_list : \A k \in DOMAIN xyz_list[i].atoms :
            xyz_list[i].atoms[k] = max_atom

\* the multi-model output and its framing lines
Ensemble == (LastFile(new_files)).lines
IsModelLine(l) == Slice(l, 0, 5) = <<"M", "O", "D", "E", "L">>
IsFraming(l) == l \in {TerLine, EndmdlLine, PdbHeader(protein_name)} \/ IsModelLine(l)
TerAt == {i \in DOMAIN Ensemble : Ensemble[i] = TerLine}
\* the position of the MODEL k line when k - 1 TER lines precede it
ModelAt(k) ==
    IF k = 1 THEN 2
    ELSE 2 + CHOOSE i \in TerAt : Cardinality({j \in TerAt : j <= i}) = k - 1
\* the frames 1..k of the input are whole: max_atom lines of four tokens each
WholeUpTo(k) ==
    /\ k <= Len(xyz_list[1].atoms)
    /\ \A f \in 1..k : xyz_list[1].atoms[f] = max_atom
    /\ xyz_list[1].odd \in {"six", "short", "long"}
\* the record of atom a of frame k when the frames before it are whole
FrameRecord(k, a) ==
    LET coords == Coordinates(xyz_file[(k - 1) * (max_atom + 2) + 2 + a])
    IN  Record(pdb_file[a], coords[1], coords[2], coords[3]) \o <<"\n">>

\* C17: the multi-model output starts with the one header line and MODEL 1; the
\* k-th TER is followed by ENDMDL and MODEL k+1, no MODEL or ENDMDL line stands
\* anywhere else, and between MODEL k and the k-th TER stand max_atom records,
\* which are those of the k-th frame when the frames up to it are whole.
C17_ModelFraming ==
    (op = "xyz2pdb_ensemble" /\ pc # "start") =>
        /\ Ensemble[1] = PdbHeader(protein_name)
        /\ \A i \in DOMAIN Ensemble : i > 1 => Ensemble[i] # PdbHeader(protein_name)
        /\ Ensemble[2] = ModelLine(1)
        /\ \A i \in DOMAIN Ensemble :
              /\ IsModelLine(Ensemble[i]) => (i = 2 \/ (i > 2 /\ Ensemble[i - 2] = TerLine))
              /\ Ensemble[i] = EndmdlLine => Ensemble[i - 1] = TerLine
        /\ \A i \in TerAt :
              LET k == Cardinality({j \in TerAt : j <= i})
              IN  /\ i + 2 <= Len(Ensemble)
                  /\ Ensemble[i + 1] = EndmdlLine
                  /\ Ensemble[i + 2] = ModelLine(k + 1)
                  /\ i - ModelAt(k) - 1 = max_atom
                  /\ \A j \in (ModelAt(k) + 1)..(i - 1) : ~IsFraming(Ensemble[j])
                  /\ WholeUpTo(k) =>
                        \A a \in 1..max_atom : Ensemble[ModelAt(k) + a] = FrameRecord(k, a)
C17_Witness ==
    /\ op = "xyz2pdb_ensemble" /\ pc = "done"
    /\ Cardinality(TerAt) = 2
    /\ WholeUpTo(2)

\* every file of the input holds at least one frame, and all its frames are whole
WholeFrames ==
    \A i \in DOMAIN xyz_list :
        /\ xyz_list[i].atoms # <<>>
        /\ \A k \in DOMAIN xyz_list[i].atoms : xyz_list[i].atoms[k] = max_atom
        /\ xyz_list[i].odd \notin {"few", "many"}

\* C18: when xyz2pdb has converted an input of whole frames, every output file
\* holds the max_atom records of one frame followed by END and nothing else.
C18_OneFramePerFile ==
    (op = "xyz2pdb" /\ pc = "done" /\ WholeFrames) =>
        \A i \in DOMAIN new_files :
            LET lines == new_files[i].lines
            IN  /\ Len(lines) = max_atom + 1
                /\ lines[Len(lines)] = EndLine
                /\ \A j \in 1..max_atom : lines[j] # EndLine

\* the single coordinate file of xyz2pdb_traj and xyz2pdb_ensemble, and whether
\* all its frames are whole
TheXyz == xyz_list[1]
AllWhole == WholeUpTo(Len(TheXyz.atoms))
\* the tokens of atom line a of frame k of the input when its frames are whole
WholeTokens(k, a) ==
    XyzAtomTokens(k, a, IF (k - 1) * max_atom + a = TheXyz.odd_at THEN TheXyz.odd ELSE "six")
\* template record a with the x, y, z tokens of atom line a of frame k
FlatRecord(k, a) ==
    LET tokens == WholeTokens(k, a)
    IN  Record(pdb_file[a], tokens[2], tokens[3], tokens[4])
RECURSIVE FlatGroups(_, _)
FlatGroups(k, frames) ==
    IF k > frames THEN <<>>
    ELSE [a \in 1..max_atom |-> FlatRecord(k, a)] \o <<EndLine>> \o FlatGroups(k + 1, frames)

\* C21: when xyz2pdb_traj has converted F frames of max_atom atoms each, the
\* output is F groups, each the max_atom records that combine coordinate line j
\* of the frame with template record j, followed by one END; no count or title
\* line gives a record.
C21_FlatGroups ==
    (op = "xyz2pdb_traj" /\ pc = "done" /\ AllWhole) =>
        (LastFile(new_files)).lines = FlatGroups(1, Len(TheXyz.atoms))
C21_Witness ==
    /\ op = "xyz2pdb_traj" /\ pc = "done" /\ AllWhole
    /\ Len(TheXyz.atoms) = 2
    /\ Len((LastFile(new_files)).lines) = 2 * (max_atom + 1)

\* C23: when xyz2pdb_ensemble has converted an input of whole frames, the output
\* has as many MODEL lines as the input has frames, and its last line is not a
\* MODEL line.
C23_ModelPerFrame ==
    (op = "xyz2pdb_ensemble" /\ pc = "done" /\ WholeFrames) =>
        /\ Cardinality({i \in DOMAIN Ensemble : IsModelLine(Ensemble[i])}) = Len(TheXyz.atoms)
        /\ ~IsModelLine(Ensemble[Len(Ensemble)])

\* C24: while the projector reads lines, the atom counter stays within
\* -1 .. max_atom + 1, and a step that writes a record takes its prefix from
\* template index 0 .. max_atom - 1, i.e. from an atom record, never from TER
\* or END.
C24_CounterInRange ==
    [][(op \in ProjectorOps /\ pc = "lines") =>
          /\ atom \in -1..(max_atom + 1)
          /\ atom' \in -1..(max_atom + 1)
          /\ WroteRecord =>
                /\ TemplateIndex(atom + 1) \in 0..(max_atom - 1)
                /\ \E i \in 1..max_atom :
                      /\ Slice(pdb_file[i], 0, 4) = <<"A", "T", "O", "M">>
                      /\ Slice(WrittenRecord, 0, 30) = Slice(pdb_file[i], 0, 30)]_vars
C24_Witness ==
    /\ op \in ProjectorOps /\ pc = "lines" /\ max_atom >= 1
    /\ atom = -1 /\ line_count = 2 * (max_atom + 2)
    /\ TheXyz.title = "unit" /\ TheXyz.atoms[1] = max_atom + 1

----------------------------------------------------------------------------
(* The section filter: clean_incomplete_xyz *)

InitFilter ==
    /\ op = "clean_incomplete_xyz"
    /\ pc = "start"
    /\ \E file \in XyzFiles : orig_file = File(ReadXyz(file))
    /\ read_pos = 0 /\ section_delim = <<>> /\ section = <<>> /\ first_line = FALSE
    /\ incomplete = 0 /\ coors_file_new = NoFile
    /\ MergeIdle /\ ProjIdle /\ ListIdle

\* lines 835-841: the output file is created and the first line is read
FilterOpen ==
    /\ op = "clean_incomplete_xyz" /\ pc = "start"
    /\ incomplete' = 0
    /\ coors_file_new' = File(<<>>)
    /\ section_delim' = IF orig_file.lines = <<>> THEN <<>>
                        ELSE Strip(At0(orig_file.lines, 0))
    /\ read_pos' = Min(1, Len(orig_file.lines))
    /\ section' = <<>>
    /\ first_line' = TRUE
    /\ pc' = "lines"
    /\ UNCHANGED <<op, orig_file, mergeVars, projVars, listVars>>

\* lines 843-862: one line of the input after the first
FilterLine ==
    /\ op = "clean_incomplete_xyz" /\ pc = "lines" /\ read_pos < Len(orig_file.lines)
    /\ LET line == At0(orig_file.lines, read_pos)
       IN  /\ read_pos' = read_pos + 1
           /\ IF first_line
              THEN /\ section' = Append(section, line)
                   /\ first_line' = FALSE
                   /\ UNCHANGED <<pc, incomplete, coors_file_new>>
              ELSE IF Slice(line, 0, Len(section_delim)) = section_delim
              THEN IF ~IsInt(section_delim)
                   THEN /\ pc' = "ValueError"
                        /\ UNCHANGED <<section, first_line, incomplete, coors_file_new>>
                   ELSE /\ IF Len(section) = IntOf(section_delim) + 2
                           THEN /\ coors_file_new' = AppendLines(coors_file_new, section)
                                /\ UNCHANGED incomplete
                           ELSE /\ incomplete' = incomplete + 1
                                /\ UNCHANGED coors_file_new
                        /\ section' = <<line>>
                        /\ UNCHANGED <<pc, first_line>>
              ELSE /\ section' = Append(section, line)
                   /\ UNCHANGED <<pc, first_line, incomplete, coors_file_new>>
    /\ UNCHANGED <<op, orig_file, section_delim, mergeVars, projVars, listVars>>

\* lines 864-873: the input is exhausted; the files are closed and the count reported
FilterEnd ==
    /\ op = "clean_incomplete_xyz" /\ pc = "lines" /\ read_pos = Len(orig_file.lines)
    /\ pc' = "done"
    /\ UNCHANGED <<op, filterVars, mergeVars, projVars, listVars>>

NextFilter ==
    \/ FilterOpen
    \/ FilterLine
    \/ FilterEnd

SpecFilter == InitFilter /\ [][NextFilter]_vars

----------------------------------------------------------------------------
(* What the filter was given and what it wrote *)

\* the sections of the input: each starts at a line that carries the atom-count
\* token of the first line and runs up to the next such line
StartsSection(lines, i) == Split(lines[i]) = Split(lines[1])
RECURSIVE SectionsFrom(_, _)
SectionsFrom(lines, i) ==
    IF i > Len(lines) THEN <<>>
    ELSE LET later == {j \in (i + 1)..Len(lines) : StartsSection(lines, j)}
             next == IF later = {} THEN Len(lines) + 1
                     ELSE CHOOSE j \in later : \A m \in later : j <= m
         IN  <<SubSeq(lines, i, next - 1)>> \o SectionsFrom(lines, next)
InputSections == SectionsFrom(orig_file.lines, 1)
IsComplete(sec) == Len(sec) = IntOf(Split(orig_file.lines[1])[1]) + 2

RECURSIVE CompleteOnes(_)
CompleteOnes(secs) ==
    IF secs = <<>> THEN <<>>
    ELSE (IF IsComplete(Head(secs)) THEN Head(secs) ELSE <<>>) \o CompleteOnes(Tail(secs))

\* C15: when clean_incomplete_xyz ends, the output holds exactly the sections of
\* the input whose line count is atom_count + 2, in input order, the first and
\* the last section included, and the incomplete count is the number of the
\* other sections.
C15_EverySectionDecided ==
    (op = "clean_incomplete_xyz" /\ pc = "done") =>
        /\ coors_file_new.lines = CompleteOnes(InputSections)
        /\ incomplete = Cardinality({i \in DOMAIN InputSections : ~IsComplete(InputSections[i])})

\* C16: every section the filter writes is one of the input's sections, copied
\* line for line from its atom-count line on.
C16_WritesInputSections ==
    [][(op = "clean_incomplete_xyz" /\ coors_file_new'.lines # coors_file_new.lines) =>
          \E i \in DOMAIN InputSections :
              coors_file_new'.lines = coors_file_new.lines \o InputSections[i]]_vars

----------------------------------------------------------------------------
(* string_to_list *)

\* str(n) for n >= 0
RECURSIVE Decimal(_)
Decimal(n) == IF n < 10 THEN <<Str(n)>> ELSE Decimal(n \div 10) \o <<Str(n % 10)>>

\* s.split(sep) for a one-character separator: cut at every occurrence
RECURSIVE SplitOn(_, _)
SplitOn(s, sep) ==
    LET at == {i \in DOMAIN s : s[i] = sep}
    IN  IF at = {} THEN <<s>>
        ELSE LET i == CHOOSE j \in at : \A m \in at : j <= m
             IN  <<SubSeq(s, 1, i - 1)>> \o SplitOn(SubSeq(s, i + 1, Len(s)), sep)

\* list(range(a, b))
PyRange(a, b) == IF b <= a THEN <<>> ELSE [i \in 1..(b - a) |-> a + i - 1]

\* the items a string is made of: a number, a range "a-b", or an item int()
\* rejects: an empty item, a negative number, a range with three parts
Numbers == {1, 3, 10}
PlainItems == [kind : {"plain"}, a : Numbers, b : {0}]
RangeItems == [kind : {"range"}, a : Numbers, b : Numbers]
OddItems == {[kind |-> "empty", a |-> 0, b |-> 0], [kind |-> "negative", a |-> 3, b |-> 0],
             [kind |-> "double", a |-> 1, b |-> 3]}
Items == PlainItems \cup RangeItems \cup OddItems
ItemText(item) ==
    IF item.kind = "plain" THEN Decimal(item.a)
    ELSE IF item.kind = "range" THEN Decimal(item.a) \o <<"-">> \o Decimal(item.b)
    ELSE IF item.kind = "negative" THEN <<"-">> \o Decimal(item.a)
    ELSE IF item.kind = "double"
         THEN Decimal(item.a) \o <<"-">> \o Decimal(item.b) \o <<"-">> \o Decimal(item.b)
    ELSE <<>>

\* the text of a string given by its items: the items joined by ","
RECURSIVE NumberString(_)
NumberString(items) ==
    IF items = <<>> THEN <<>>
    ELSE IF Len(items) = 1 THEN ItemText(items[1])
    ELSE ItemText(items[1]) \o <<",">> \o NumberString(Tail(items))

\* the argument: a first string of up to MaxItems items and further strings of
\* one item each
FirstStrings == UNION {[1..n -> Items] : n \in 1..MaxItems}
FurtherStrings == {<<item>> : item \in PlainItems \cup {[kind |-> "range", a |-> 1, b |-> 3]}}
IsStrList(list) ==
    \/ list = <<>>
    \/ \E n \in 0..(MaxStrings - 1) : \E first \in FirstStrings, rest \in [1..n -> FurtherStrings] :
          list = <<first>> \o rest

\* lines 1234-1238: int() and the unpacking accept the segment
SegmentOk(segment) ==
    IF Contains(segment, <<"-">>)
    THEN LET parts == SplitOn(segment, "-")
         IN  Len(parts) = 2 /\ IsInt(parts[1]) /\ IsInt(parts[2])
    ELSE IsInt(segment)

\* line 1236: range(start, end + 1)
SegmentRangeExclusive(start, end) == PyRange(start, end)
SegmentRange(start, end) == PyRange(start, end + 1)

\* lines 1234-1238: what the segment adds to sub_list
SegmentNumbers(segment) ==
    IF Contains(segment, <<"-">>)
    THEN LET parts == SplitOn(segment, "-")
         IN  SegmentRange(IntOf(parts[1]), IntOf(parts[2]))
    ELSE <<IntOf(segment)>>

\* lines 1231-1238: sub_list after the segments
RECURSIVE SubList(_)
SubList(segments) ==
    IF segments = <<>> THEN <<>>
    ELSE SegmentNumbers(Head(segments)) \o SubList(Tail(segments))

InitList ==
    /\ op = "string_to_list"
    /\ pc = "start"
    /\ IsStrList(str_list)
    /\ number_list = <<>>
    /\ MergeIdle /\ ProjIdle /\ FilterIdle

\* line 1227: the empty result
ListStart ==
    /\ op = "string_to_list" /\ pc = "start"
    /\ number_list' = <<>>
    /\ pc' = "loop"
    /\ UNCHANGED <<op, str_list, mergeVars, projVars, filterVars>>

\* lines 1228-1240: one string of the argument
ListString ==
    /\ op = "string_to_list" /\ pc = "loop" /\ Len(number_list) < Len(str_list)
    /\ LET number_string == NumberString(At0(str_list, Len(number_list)))
           segments == SplitOn(number_string, ",")
       IN  IF \A i \in DOMAIN segments : SegmentOk(segments[i])
           THEN number_list' = Append(number_list, SubList(segments)) /\ pc' = pc
           ELSE pc' = "ValueError" /\ UNCHANGED number_list
    /\ UNCHANGED <<op, str_list, mergeVars, projVars, filterVars>>

\* line 1242: return number_list
ListReturn ==
    /\ op = "string_to_list" /\ pc = "loop" /\ Len(number_list) = Len(str_list)
    /\ pc' = "done"
    /\ UNCHANGED <<op, listVars, mergeVars, projVars, filterVars>>

NextList ==
    \/ ListStart
    \/ ListString
    \/ ListReturn

SpecList == InitList /\ [][NextList]_vars

----------------------------------------------------------------------------
(* What string_to_list was given and what it returned *)

\* the integers an item stands for: itself, or a, a+1, ..., b
ItemRange(item) ==
    IF item.kind = "plain" THEN <<item.a>>
    ELSE IF item.a > item.b THEN <<>>
    ELSE [i \in 1..(item.b - item.a + 1) |-> item.a + i - 1]
RECURSIVE Expansion(_)
Expansion(items) ==
    IF items = <<>> THEN <<>> ELSE ItemRange(Head(items)) \o Expansion(Tail(items))
WellFormed(items) == \A i \in DOMAIN items : items[i].kind \in {"plain", "range"}

\* C19: for strings made of numbers and "a-b" items, string_to_list returns, in
\* the order of the strings, the list of each string's items expanded in item
\* order, a range to a, a+1, ..., b and a number to itself.
C19_ExpandsRanges ==
    (op = "string_to_list" /\ \A i \in DOMAIN str_list : WellFormed(str_list[i])) =>
        /\ pc # "ValueError"
        /\ Len(number_list) <= Len(str_list)
        /\ \A i \in DOMAIN number_list : number_list[i] = Expansion(str_list[i])
        /\ pc = "done" => Len(number_list) = Len(str_list)
C19_Witness ==
    /\ op = "string_to_list" /\ pc = "done"
    /\ str_list = << <<[kind |-> "range", a |-> 1, b |-> 3], [kind |-> "plain", a |-> 10, b |-> 0]>>,
                     <<[kind |-> "range", a |-> 1, b |-> 3]>> >>
    /\ number_list = << <<1, 2, 3, 10>>, <<1, 2, 3>> >>

====
